---- MODULE Spec2Model ----
(***************************************************************************)
(* Model of netlify/functions/check-links.js: the request handler, the URL *)
(* sanitizer/validator, the windowed scheduler, the single-link probe, the *)
(* redirect-chain tracer and the summary aggregator.                       *)
(*                                                                         *)
(* Strings that the code inspects character by character (raw links, URLs, *)
(* hostnames, blocklist entries) are sequences of one-character strings.   *)
(* Strings the code only compares or copies (statuses, messages, error     *)
(* codes) are TLA+ strings.                                                *)
(***************************************************************************)
EXTENDS Integers, Sequences, FiniteSets, TLC

(***************************************************************************)
(* Program constants.                                                      *)
(***************************************************************************)
maxLinksPerRequest == 50
timeoutMs == 15000
maxConcurrency == 8
PacingDelayMs == 200
FollowLimit == 10
SlowThresholdMs == 5000
TraceHopLimit == 5
TraceTimeoutMs == 5000

HTTP == <<"h", "t", "t", "p", ":", "/", "/">>
HTTPS == <<"h", "t", "t", "p", "s", ":", "/", "/">>

BLOCKED_HOSTS ==
  << <<"l", "o", "c", "a", "l", "h", "o", "s", "t">>,
     <<"1", "2", "7", ".", "0", ".", "0", ".", "1">>,
     <<"0", ".", "0", ".", "0", ".", "0">>,
     <<"1", "0", ".">>,
     <<"1", "9", "2", ".", "1", "6", "8", ".">>,
     <<"1", "7", "2", ".">> >>

ALLOWED_PROTOCOLS == << <<"h", "t", "t", "p", ":">>, <<"h", "t", "t", "p", "s", ":">> >>

(***************************************************************************)
(* JavaScript string primitives on character sequences.                    *)
(***************************************************************************)
StartsWith(s, p) == Len(s) >= Len(p) /\ SubSeq(s, 1, Len(p)) = p

Includes(s, p) == \E i \in 1..(Len(s) - Len(p) + 1) : SubSeq(s, i, i + Len(p) - 1) = p

IndexOf(s, c) ==
  IF \E i \in 1..Len(s) : s[i] = c
  THEN CHOOSE i \in 1..Len(s) : s[i] = c /\ \A j \in 1..(i - 1) : s[j] # c
  ELSE 0

IsWhitespace(c) == c \in {" ", "\t", "\n"}

RECURSIVE TrimStart(_)
TrimStart(s) == IF s # <<>> /\ IsWhitespace(Head(s)) THEN TrimStart(Tail(s)) ELSE s

RECURSIVE TrimEnd(_)
TrimEnd(s) ==
  IF s # <<>> /\ IsWhitespace(s[Len(s)]) THEN TrimEnd(SubSeq(s, 1, Len(s) - 1)) ELSE s

Trim(s) == TrimEnd(TrimStart(s))

LowerChar(c) ==
  CASE c = "A" -> "a"
    [] c = "C" -> "c"
    [] c = "H" -> "h"
    [] c = "I" -> "i"
    [] c = "L" -> "l"
    [] c = "O" -> "o"
    [] c = "P" -> "p"
    [] c = "S" -> "s"
    [] c = "T" -> "t"
    [] c = "V" -> "v"
    [] OTHER -> c

ToLowerCase(s) == [i \in 1..Len(s) |-> LowerChar(s[i])]

IsDigit(c) == c \in {"0", "1", "2", "3", "4", "5", "6", "7", "8", "9"}

(***************************************************************************)
(* new URL(s): the WHATWG parser on the inputs of this model: a scheme     *)
(* (any case) followed by "://", an authority of a host and an optional    *)
(* ":port", and a path.  The scheme and the host are lower-cased, a host   *)
(* that is empty or holds a forbidden code point fails, a port that is not *)
(* a number fails, an empty port is dropped and an empty path is "/".      *)
(***************************************************************************)
ForbiddenHostChar(c) == IsWhitespace(c) \/ c \in {"<", ">", "%", "^", "|", "/", "?", "#", "@"}

ParseFailure == [ok |-> FALSE]

UrlRecord(scheme, host, port, path) ==
  IF host = <<>> \/ (\E i \in 1..Len(host) : ForbiddenHostChar(host[i]))
        \/ (\E i \in 1..Len(port) : ~IsDigit(port[i]))
  THEN ParseFailure
  ELSE [ok |-> TRUE,
        protocol |-> scheme \o <<":">>,
        hostname |-> host,
        href |-> scheme \o <<":", "/", "/">> \o host
                   \o (IF port = <<>> THEN <<>> ELSE <<":">> \o port) \o path]

(* The authority is "host" or "host:port". *)
ParseHostPort(scheme, authority, path, portAt) ==
  UrlRecord(scheme,
            ToLowerCase(IF portAt = 0 THEN authority ELSE SubSeq(authority, 1, portAt - 1)),
            IF portAt = 0 THEN <<>> ELSE SubSeq(authority, portAt + 1, Len(authority)),
            path)

(* rest is what follows "scheme://": the authority up to the first "/". *)
ParseAuthority(scheme, rest, slash) ==
  ParseHostPort(scheme,
                IF slash = 0 THEN rest ELSE SubSeq(rest, 1, slash - 1),
                IF slash = 0 THEN <<"/">> ELSE SubSeq(rest, slash, Len(rest)),
                IndexOf(IF slash = 0 THEN rest ELSE SubSeq(rest, 1, slash - 1), ":"))

ParseScheme(scheme, afterScheme) ==
  IF ~StartsWith(afterScheme, <<"/", "/">>)
        \/ scheme \notin {<<"h", "t", "t", "p">>, <<"h", "t", "t", "p", "s">>, <<"f", "t", "p">>}
  THEN ParseFailure
  ELSE ParseAuthority(scheme, SubSeq(afterScheme, 3, Len(afterScheme)),
                      IndexOf(SubSeq(afterScheme, 3, Len(afterScheme)), "/"))

ParseAt(s, colon) ==
  IF colon <= 1 THEN ParseFailure
  ELSE ParseScheme(ToLowerCase(SubSeq(s, 1, colon - 1)), SubSeq(s, colon + 1, Len(s)))

ParseUrl(s) == ParseAt(s, IndexOf(s, ":"))

(***************************************************************************)
(* A raw element of the links array is a string [type |-> "string",        *)
(* chars |-> ...] or a JSON value of another type.  sanitizeUrl returns    *)
(* the normalized href or null; an href is never the empty string, so the  *)
(* empty sequence stands for null (both are falsy in the filter).          *)
(***************************************************************************)
NullUrl == <<>>

(* Lines 111-113. *)
WithScheme(url) ==
  IF ~StartsWith(url, HTTP) /\ ~StartsWith(url, HTTPS) THEN HTTPS \o url ELSE url

(* Lines 115-120. *)
HrefOrNull(urlObj) == IF urlObj.ok THEN urlObj.href ELSE NullUrl

sanitizeUrl(link) ==
  IF link.type # "string" THEN NullUrl
  ELSE HrefOrNull(ParseUrl(WithScheme(Trim(link.chars))))

(* Allowed applying the blocklist to http: URLs only. *)
AllowedBlockingHttpOnly(urlObj) ==
  IF ~urlObj.ok THEN FALSE
  ELSE IF \A k \in 1..Len(ALLOWED_PROTOCOLS) : ALLOWED_PROTOCOLS[k] # urlObj.protocol THEN FALSE
  ELSE IF /\ urlObj.protocol = ALLOWED_PROTOCOLS[1]
          /\ \E k \in 1..Len(BLOCKED_HOSTS) :
               Includes(ToLowerCase(urlObj.hostname), BLOCKED_HOSTS[k])
       THEN FALSE
  ELSE TRUE

(* Lines 127-138. *)
Allowed(urlObj) ==
  IF ~urlObj.ok THEN FALSE
  ELSE IF \A k \in 1..Len(ALLOWED_PROTOCOLS) : ALLOWED_PROTOCOLS[k] # urlObj.protocol THEN FALSE
  ELSE IF \E k \in 1..Len(BLOCKED_HOSTS) : Includes(ToLowerCase(urlObj.hostname), BLOCKED_HOSTS[k])
       THEN FALSE
  ELSE TRUE

validateUrl(url) == Allowed(ParseUrl(url))

(***************************************************************************)
(* JSON values.  null is the record NullValue; an options object is a      *)
(* record of its four properties, a JavaScript boolean written "true" or   *)
(* "false", a missing property "undefined", and a missing or zero timeout  *)
(* 0 (both are falsy at line 184).                                         *)
(***************************************************************************)
NullValue == [null |-> TRUE]

IsNull(v) == "null" \in DOMAIN v

getUserAgent(type) == IF type \in {"chrome", "mobile", "bot", "default"} THEN type ELSE "default"

(***************************************************************************)
(* The network.  net maps an href to what the server at that URL does: a   *)
(* response (its status, its location header, <<>> when it has none, and   *)
(* the time it takes) or a failure (the code, name and type of the error   *)
(* the HTTP client raises).  A URL the network does not know has no DNS    *)
(* entry.                                                                  *)
(***************************************************************************)
VARIABLES event, net, pc, sanitizeRan, sanitizedLinks, batches, batchIndex,
          probes, results, delays, requestCount, requestedUrls, summaries, returned

vars == <<event, net, pc, sanitizeRan, sanitizedLinks, batches, batchIndex,
          probes, results, delays, requestCount, requestedUrls, summaries, returned>>

Response(status, location, ms) ==
  [kind |-> "response", status |-> status, location |-> location, ms |-> ms]

Failure(code, name, type, ms) ==
  [kind |-> "error", code |-> code, name |-> name, type |-> type, ms |-> ms]

NetAt(url) ==
  IF url \in DOMAIN net THEN net[url] ELSE Failure("ENOTFOUND", "FetchError", "system", 20)

CertCodes == {"CERT_HAS_EXPIRED"}

(***************************************************************************)
(* new URL(location, base).href: an absolute location is parsed alone, a   *)
(* location starting with "/" replaces the path of the base, any other one *)
(* is a path relative to the root of the base (the bases here have the     *)
(* path "/").  NullUrl when the parse throws.                              *)
(***************************************************************************)
Origin(urlObj) == urlObj.protocol \o <<"/", "/">> \o urlObj.hostname

Resolved(location, abs, b) ==
  IF abs.ok THEN abs.href
  ELSE IF ~b.ok THEN NullUrl
  ELSE IF StartsWith(location, <<"/">>) THEN Origin(b) \o location
  ELSE Origin(b) \o <<"/">> \o location

ResolveUrl(location, base) == Resolved(location, ParseUrl(location), ParseUrl(base))

(***************************************************************************)
(* fetch(url, options) of node-fetch: the request walks the redirects the  *)
(* options allow and settles with a response or an error.  redirect is     *)
(* "follow" (the default) or "manual"; follow is the number of redirects   *)
(* followed; timeout bounds each request of the walk; rejectUnauthorized   *)
(* is whether the agent refuses a certificate it cannot verify.  The       *)
(* result carries the elapsed time and the URLs that were requested.       *)
(***************************************************************************)
isRedirect(status) == status \in {301, 302, 303, 307, 308}

FetchError(type, ms, visited) ==
  [kind |-> "error", code |-> "undefined", name |-> "FetchError", type |-> type,
   ms |-> ms, visited |-> visited]

(* What the server answers to a client that does or does not verify its    *)
(* certificate.                                                            *)
Served(b, verify) ==
  IF b.kind = "error" /\ b.code \in CertCodes /\ ~verify THEN Response(200, <<>>, b.ms) ELSE b

RECURSIVE FetchWalk(_, _, _, _)

FollowTo(next, o, counter, r) ==
  IF next = NullUrl THEN FetchError("invalid-redirect", r.ms, r.visited)
  ELSE FetchWalk(next, o, counter + 1, r)

WalkStep(url, o, counter, r, elapsed, seen) ==
  IF r.ms > o.timeout THEN FetchError("request-timeout", elapsed + o.timeout, seen)
  ELSE IF r.kind = "error"
  THEN [kind |-> "error", code |-> r.code, name |-> r.name, type |-> r.type,
        ms |-> elapsed + r.ms, visited |-> seen]
  ELSE IF o.redirect = "follow" /\ isRedirect(r.status) /\ r.location # <<>>
  THEN IF counter >= o.follow THEN FetchError("max-redirect", elapsed + r.ms, seen)
       ELSE FollowTo(ResolveUrl(r.location, url), o, counter,
                     [ms |-> elapsed + r.ms, visited |-> seen])
  ELSE [kind |-> "response", status |-> r.status, url |-> url, location |-> r.location,
        ms |-> elapsed + r.ms, visited |-> seen]

FetchWalk(url, o, counter, sofar) ==
  WalkStep(url, o, counter, Served(NetAt(url), o.rejectUnauthorized), sofar.ms,
           sofar.visited \cup {url})

Fetch(url, fetchOptions) == FetchWalk(url, fetchOptions, 0, [ms |-> 0, visited |-> {}])

(***************************************************************************)
(* checkSingleLink.  The part before the first await runs when the window  *)
(* is started: it reads the options (which throws on null, outside the     *)
(* try block, so the promise rejects) and issues the request.              *)
(***************************************************************************)
FetchOptionsOf(url, options) ==
  [redirect |-> "follow",
   timeout |-> IF options.timeout # 0 THEN options.timeout ELSE timeoutMs,
   follow |-> IF options.followRedirects # "false" THEN FollowLimit ELSE 0,
   userAgent |-> getUserAgent(options.userAgent),
   rejectUnauthorized |->
     IF StartsWith(url, <<"h", "t", "t", "p", "s", ":">>) THEN options.checkSSL # "false" ELSE TRUE]

checkSingleLinkStart(url, options) ==
  IF IsNull(options)
  THEN [pc |-> "rejected", url |-> url,
        reason |-> [name |-> "TypeError", message |-> "Cannot read properties of null"]]
  ELSE [pc |-> "fetch", url |-> url, fetchOptions |-> FetchOptionsOf(url, options),
        mainRequests |-> 1]

getStatusMessage(statusCode) ==
  CASE statusCode = 400 -> "Bad Request"
    [] statusCode = 401 -> "Unauthorized"
    [] statusCode = 403 -> "Forbidden"
    [] statusCode = 404 -> "Not Found"
    [] statusCode = 429 -> "Too Many Requests"
    [] statusCode = 500 -> "Internal Server Error"
    [] statusCode = 502 -> "Bad Gateway"
    [] statusCode = 503 -> "Service Unavailable"
    [] statusCode = 504 -> "Gateway Timeout"
    [] OTHER -> "HTTP " \o ToString(statusCode)

(* Classify with the redirect test before the slow-response test. *)
ClassifyRedirectFirst(statusCode, responseTime) ==
  IF statusCode >= 400
  THEN [status |-> "broken", message |-> getStatusMessage(statusCode)]
  ELSE IF statusCode >= 300 /\ statusCode < 400
  THEN [status |-> "redirect", message |-> "Redirect"]
  ELSE IF responseTime > SlowThresholdMs
  THEN [status |-> "warning", message |-> "Slow Response"]
  ELSE [status |-> "healthy", message |-> "OK"]

Classify(statusCode, responseTime) ==
  IF statusCode >= 400
  THEN [status |-> "broken", message |-> getStatusMessage(statusCode)]
  ELSE IF responseTime > SlowThresholdMs
  THEN [status |-> "warning", message |-> "Slow Response"]
  ELSE IF statusCode >= 300 /\ statusCode < 400
  THEN [status |-> "redirect", message |-> "Redirect"]
  ELSE [status |-> "healthy", message |-> "OK"]

TransportMessage(error) ==
  IF error.code = "ENOTFOUND" THEN "DNS Resolution Failed"
  ELSE IF error.code = "ECONNREFUSED" THEN "Connection Refused"
  ELSE IF error.code = "ETIMEDOUT" \/ error.name = "FetchError" THEN "Request Timeout"
  ELSE IF error.code = "CERT_HAS_EXPIRED" THEN "SSL Certificate Expired"
  ELSE "Connection Failed"

(* ResultObject reporting sslValid for every https URL, whatever checkSSL. *)
ResultObjectSslUnchecked(url, options, response, responseTime, redirectChain, c) ==
  [url |-> url,
   status |-> c.status,
   statusCode |-> response.status,
   message |-> c.message,
   responseTime |-> responseTime,
   redirectChain |-> redirectChain,
   sslValid |-> IF StartsWith(url, <<"h", "t", "t", "p", "s", ":">>) THEN "true" ELSE "null",
   headers |-> "captured"]

(* The object returned at lines 226-240; redirectChain is NullValue or     *)
(* [items |-> the hops].  The timestamp and the header values are left out.*)
ResultObject(url, options, response, responseTime, redirectChain, c) ==
  [url |-> url,
   status |-> c.status,
   statusCode |-> response.status,
   message |-> c.message,
   responseTime |-> responseTime,
   redirectChain |-> redirectChain,
   sslValid |-> IF StartsWith(url, <<"h", "t", "t", "p", "s", ":">>) /\ options.checkSSL # "false"
                THEN "true" ELSE "null",
   headers |-> "captured"]

ResponseResult(url, options, response, responseTime, redirectChain) ==
  ResultObject(url, options, response, responseTime, redirectChain,
               Classify(response.status, responseTime))

(* The object returned at lines 258-268. *)
FailureResult(url, error, responseTime) ==
  [url |-> url,
   status |-> "broken",
   statusCode |-> IF error.code # "undefined" THEN error.code ELSE "ERROR",
   message |-> TransportMessage(error),
   responseTime |-> responseTime,
   redirectChain |-> NullValue,
   sslValid |-> "null",
   error |-> "request failed"]

(***************************************************************************)
(* getRedirectChain.  TraceOptions are the options of its fetch; the       *)
(* return value is null for an empty chain.                                *)
(***************************************************************************)
TraceOptions(options) ==
  [redirect |-> "manual", timeout |-> TraceTimeoutMs, follow |-> 20,
   userAgent |-> getUserAgent(options.userAgent), rejectUnauthorized |-> TRUE]

ChainValue(chain) == IF Len(chain) > 0 THEN [items |-> chain] ELSE NullValue

Fulfilled(p, options, chain) ==
  [pc |-> "fulfilled", url |-> p.url, outcome |-> p.response, mainRequests |-> p.mainRequests,
   value |-> ResponseResult(p.url, options, p.response, p.responseTime, ChainValue(chain))]

(* Lines 272-278: getRedirectChain up to its first request. *)
getRedirectChainStart(p, r) ==
  [pc |-> "trace", url |-> p.url, response |-> r, responseTime |-> r.ms,
   mainRequests |-> p.mainRequests,
   chain |-> <<>>, currentUrl |-> p.url, maxRedirects |-> TraceHopLimit]

(* checkSingleLinkResume issuing the main request a second time when the   *)
(* first one fails.                                                        *)
checkSingleLinkResumeRetrying(p, r, options) ==
  IF r.kind = "error" /\ p.mainRequests < 2
  THEN [p EXCEPT !.mainRequests = @ + 1]
  ELSE IF r.kind = "error"
  THEN [pc |-> "fulfilled", url |-> p.url, outcome |-> r, mainRequests |-> p.mainRequests,
        value |-> FailureResult(p.url, r, r.ms)]
  ELSE IF options.followRedirects # "false" /\ r.url # p.url /\ TraceHopLimit > 0
  THEN getRedirectChainStart(p, r)
  ELSE Fulfilled(getRedirectChainStart(p, r), options, <<>>)

(* checkSingleLinkResume tracing when the final URL equals the requested   *)
(* one.                                                                    *)
checkSingleLinkResumeSameUrl(p, r, options) ==
  IF r.kind = "error"
  THEN [pc |-> "fulfilled", url |-> p.url, outcome |-> r, mainRequests |-> p.mainRequests,
        value |-> FailureResult(p.url, r, r.ms)]
  ELSE IF options.followRedirects # "false" /\ r.url = p.url /\ TraceHopLimit > 0
  THEN getRedirectChainStart(p, r)
  ELSE Fulfilled(getRedirectChainStart(p, r), options, <<>>)

(* The main request of probe p settled with r: lines 203-240 or 242-269.   *)
checkSingleLinkResume(p, r, options) ==
  IF r.kind = "error"
  THEN [pc |-> "fulfilled", url |-> p.url, outcome |-> r, mainRequests |-> p.mainRequests,
        value |-> FailureResult(p.url, r, r.ms)]
  ELSE IF options.followRedirects # "false" /\ r.url # p.url /\ TraceHopLimit > 0
  THEN getRedirectChainStart(p, r)
  ELSE Fulfilled(getRedirectChainStart(p, r), options, <<>>)

(* TraceStep putting each new hop at the head of the chain. *)
TraceStepPrepending(p, r) ==
  IF r.kind = "response" /\ r.status >= 300 /\ r.status < 400 /\ r.location # <<>>
  THEN [chain |-> <<[url |-> p.currentUrl, status |-> r.status,
                     location |-> r.location]>> \o p.chain,
        currentUrl |-> ResolveUrl(r.location, p.currentUrl),
        maxRedirects |-> p.maxRedirects - 1]
  ELSE [chain |-> p.chain, currentUrl |-> NullUrl, maxRedirects |-> 0]

(* Lines 288-303 for the response r of the request to p.currentUrl: the    *)
(* chain so far, the next URL, and whether the loop goes on to request it. *)
TraceStep(p, r) ==
  IF r.kind = "response" /\ r.status >= 300 /\ r.status < 400 /\ r.location # <<>>
  THEN [chain |-> Append(p.chain, [url |-> p.currentUrl, status |-> r.status,
                                   location |-> r.location]),
        currentUrl |-> ResolveUrl(r.location, p.currentUrl),
        maxRedirects |-> p.maxRedirects - 1]
  ELSE [chain |-> p.chain, currentUrl |-> NullUrl, maxRedirects |-> 0]

(* AfterTraceStep with the loop test maxRedirects >= 0. *)
AfterTraceStepInclusive(p, step, options) ==
  IF step.currentUrl # NullUrl /\ step.maxRedirects >= 0
  THEN [p EXCEPT !.chain = step.chain, !.currentUrl = step.currentUrl,
                 !.maxRedirects = step.maxRedirects]
  ELSE Fulfilled(p, options, step.chain)

AfterTraceStep(p, step, options) ==
  IF step.currentUrl # NullUrl /\ step.maxRedirects > 0
  THEN [p EXCEPT !.chain = step.chain, !.currentUrl = step.currentUrl,
                 !.maxRedirects = step.maxRedirects]
  ELSE Fulfilled(p, options, step.chain)

(* getRedirectChainHop without the try block of line 277: the failure of   *)
(* a hop reaches the catch block of checkSingleLink.                       *)
getRedirectChainHopUncaught(p, r, options) ==
  IF r.kind = "error"
  THEN [pc |-> "fulfilled", url |-> p.url, outcome |-> r, mainRequests |-> p.mainRequests,
        value |-> FailureResult(p.url, r, p.responseTime + r.ms)]
  ELSE AfterTraceStep(p, TraceStep(p, r), options)

(* The request of one hop of probe p settled with r: lines 288-309.        *)
getRedirectChainHop(p, r, options) == AfterTraceStep(p, TraceStep(p, r), options)

(***************************************************************************)
(* generateSummary.  nan holds the properties whose value is NaN: a status *)
(* that is not a counter of the summary (undefined++), and the average of  *)
(* an empty result list (0 / 0).                                           *)
(***************************************************************************)
Round(num, den) == (2 * num + den) \div (2 * den)

RECURSIVE Tally(_, _, _)
Tally(s, res, k) ==
  IF k > Len(res) THEN s
  ELSE
    LET result == res[k]
        counted == IF result.status \in {"healthy", "broken", "warning", "redirect"}
                   THEN [s EXCEPT ![result.status] = @ + 1]
                   ELSE [s EXCEPT !.nan = @ \cup {result.status}]
        timed == [counted EXCEPT !.totalResponseTime = @ + result.responseTime]
        listed == IF "error" \in DOMAIN result
                  THEN [timed EXCEPT !.errors = Append(@, [url |-> result.url,
                                                           error |-> result.error])]
                  ELSE timed
    IN Tally(listed, res, k + 1)

Summary(s, n) ==
  [total |-> s.total, healthy |-> s.healthy, broken |-> s.broken, warning |-> s.warning,
   redirect |-> s.redirect,
   averageResponseTime |-> IF n = 0 THEN 0 ELSE Round(s.totalResponseTime, n),
   errors |-> s.errors,
   nan |-> IF n = 0 THEN s.nan \cup {"averageResponseTime"} ELSE s.nan]

generateSummary(res) ==
  Summary(Tally([total |-> Len(res), healthy |-> 0, broken |-> 0, warning |-> 0,
                 redirect |-> 0, averageResponseTime |-> 0, errors |-> <<>>,
                 nan |-> {}, totalResponseTime |-> 0], res, 1), Len(res))

(***************************************************************************)
(* processLinksWithConcurrency.                                            *)
(***************************************************************************)
Min(a, b) == IF a < b THEN a ELSE b

(* Lines 149-151: the slices of maxConcurrency links. *)
Batches(links) ==
  [k \in 1..((Len(links) + maxConcurrency - 1) \div maxConcurrency) |->
     SubSeq(links, (k - 1) * maxConcurrency + 1, Min(k * maxConcurrency, Len(links)))]

(* The positions, in the validated list, of the links of batch k. *)
BatchPositions(bs, k) ==
  {(k - 1) * maxConcurrency + index : index \in 1..Len(bs[k])}

(* Line 154: batch.map(url => checkSingleLink(url, options)). *)
StartedProbes(ps, bs, k, options) ==
  [i \in DOMAIN ps |->
     IF i \in BatchPositions(bs, k)
     THEN checkSingleLinkStart(bs[k][i - (k - 1) * maxConcurrency], options)
     ELSE ps[i]]

(* allSettled resolving as soon as one promise has settled. *)
anySettled(ps, positions) == \E i \in positions : ps[i].pc \in {"fulfilled", "rejected"}

(* Line 155: Promise.allSettled resolves when every promise has settled. *)
allSettled(ps, positions) == \A i \in positions : ps[i].pc \in {"fulfilled", "rejected"}

(* SlotResult reporting a rejected promise like a transport failure. *)
SlotResultAsBroken(p, url) ==
  IF p.pc = "fulfilled" THEN p.value
  ELSE [url |-> url,
        status |-> "broken",
        statusCode |-> "ERROR",
        message |-> "Connection Failed",
        responseTime |-> 0,
        error |-> IF p.pc = "rejected" THEN p.reason.message ELSE "Unknown error"]

(* Lines 157-171: the result pushed for one settled promise. *)
SlotResult(p, url) ==
  IF p.pc = "fulfilled" THEN p.value
  ELSE [url |-> url,
        status |-> "error",
        statusCode |-> "PROCESSING_ERROR",
        message |-> "Failed to process",
        responseTime |-> 0,
        error |-> IF p.pc = "rejected" THEN p.reason.message ELSE "Unknown error"]

(* BatchResults pushing the results of a batch last-first. *)
BatchResultsReversed(ps, bs, k) ==
  [index \in 1..Len(bs[k]) |->
     SlotResult(ps[(k - 1) * maxConcurrency + (Len(bs[k]) + 1 - index)],
                bs[k][Len(bs[k]) + 1 - index])]

BatchResults(ps, bs, k) ==
  [index \in 1..Len(bs[k]) |-> SlotResult(ps[(k - 1) * maxConcurrency + index], bs[k][index])]

(* Line 174: whether the loop body ends with the pacing delay. *)
PacesAfter(bs, k) == Len(bs) > 1

(***************************************************************************)
(* exports.handler up to its first await: what it answers at once, or the  *)
(* validated links it goes on to process.                                  *)
(***************************************************************************)
EmptyObject ==
  [timeout |-> 0, followRedirects |-> "undefined", checkSSL |-> "undefined",
   userAgent |-> "undefined"]

(* Line 41: options = {} when the body has no options property. *)
OptionsOf(ev) ==
  IF "undefined" \in DOMAIN ev.body.options THEN EmptyObject ELSE ev.body.options

(* Lines 64-66. *)
Sanitized(links) ==
  SelectSeq([i \in 1..Len(links) |-> sanitizeUrl(links[i])],
            LAMBDA link : link # NullUrl /\ validateUrl(link))

Answer(statusCode, error) ==
  [reply |-> TRUE, response |-> [statusCode |-> statusCode, error |-> error],
   sanitizeRan |-> FALSE, links |-> <<>>]

(* Surviving without the test of lines 68-74. *)
SurvivingUnchecked(links) == [reply |-> FALSE, sanitizeRan |-> TRUE, links |-> links]

(* Lines 68-77. *)
Surviving(links) ==
  IF Len(links) = 0
  THEN [reply |-> TRUE, response |-> [statusCode |-> 400, error |-> "No valid URLs provided"],
        sanitizeRan |-> TRUE, links |-> <<>>]
  ELSE [reply |-> FALSE, sanitizeRan |-> TRUE, links |-> links]

(* Admit applying the cap to the links that survive sanitization. *)
AdmitCapLate(ev) ==
  IF ev.httpMethod = "OPTIONS" THEN Answer(200, "")
  ELSE IF ev.httpMethod # "POST" THEN Answer(405, "Method not allowed")
  ELSE IF ~ev.body.parses THEN Answer(500, "Internal server error")
  ELSE IF ~ev.body.linksIsArray \/ Len(ev.body.links) = 0 THEN Answer(400, "Invalid links array")
  ELSE IF Len(Sanitized(ev.body.links)) > maxLinksPerRequest
  THEN [Answer(429, "Maximum 50 links per request") EXCEPT !.sanitizeRan = TRUE]
  ELSE Surviving(Sanitized(ev.body.links))

Admit(ev) ==
  IF ev.httpMethod = "OPTIONS" THEN Answer(200, "")
  ELSE IF ev.httpMethod # "POST" THEN Answer(405, "Method not allowed")
  ELSE IF ~ev.body.parses THEN Answer(500, "Internal server error")
  ELSE IF ~ev.body.linksIsArray \/ Len(ev.body.links) = 0 THEN Answer(400, "Invalid links array")
  ELSE IF Len(ev.body.links) > maxLinksPerRequest THEN Answer(429, "Maximum 50 links per request")
  ELSE Surviving(Sanitized(ev.body.links))

(***************************************************************************)
(* Actions.                                                                *)
(***************************************************************************)
(* Lines 153-155: the probes of batch k are started (started is probes     *)
(* after line 154) and the scheduler awaits them.                          *)
Launched(started, bs, k) ==
  /\ probes' = started
  /\ batchIndex' = k
  /\ pc' = "window"
  /\ requestCount' = requestCount
                       + Cardinality({i \in BatchPositions(bs, k) : started[i].pc = "fetch"})
  /\ requestedUrls' = requestedUrls
                        \cup {started[i].url : i \in {j \in BatchPositions(bs, k) :
                                                        started[j].pc = "fetch"}}
  /\ UNCHANGED <<summaries, returned>>

Launch(ps, bs, k) == Launched(StartedProbes(ps, bs, k, OptionsOf(event)), bs, k)

(* Lines 80-91: the handler summarises and answers 200. *)
Answer200(res, summary) ==
  /\ summaries' = Append(summaries, summary)
  /\ returned' = Append(returned, [statusCode |-> 200, results |-> res,
                                   summary |-> summary, processed |-> Len(res)])
  /\ pc' = "done"
  /\ UNCHANGED <<batchIndex, probes, requestCount, requestedUrls>>

(* Line 179: the scheduler returns the results to the handler. *)
Finish(res) == Answer200(res, generateSummary(res))

(* NextIteration leaving the loop after the batch it has just collected. *)
NextIterationStopping(bs, res) == Finish(res)

(* The for loop of line 153 goes to its next batch, or ends. *)
NextIteration(bs, res) ==
  IF batchIndex < Len(bs) THEN Launch(probes, bs, batchIndex + 1) ELSE Finish(res)

(* Lines 144-153: the scheduler is entered with the validated links. *)
processLinksWithConcurrency(links, bs) ==
  /\ batches' = bs
  /\ IF Len(bs) = 0
     THEN Finish(<<>>)
     ELSE Launch([i \in 1..Len(links) |-> [pc |-> "idle"]], bs, 1)

Handle(a) ==
  /\ sanitizeRan' = a.sanitizeRan
  /\ sanitizedLinks' = a.links
  /\ IF a.reply
     THEN /\ returned' = Append(returned, a.response)
          /\ pc' = "done"
          /\ UNCHANGED <<batches, batchIndex, probes, requestCount, requestedUrls, summaries>>
     ELSE processLinksWithConcurrency(a.links, Batches(a.links))

HandleRequest ==
  /\ pc = "start"
  /\ Handle(Admit(event))
  /\ UNCHANGED <<event, net, results, delays>>

(* Probe i moves to q; a probe that goes on tracing has issued the request *)
(* of its next hop.                                                        *)
Settle(i, visited, q) ==
  /\ probes' = [probes EXCEPT ![i] = q]
  /\ requestCount' = requestCount + (IF q.pc = "trace" THEN 1 ELSE 0)
  /\ requestedUrls' = requestedUrls \cup visited
                        \cup (IF q.pc = "trace" THEN {q.currentUrl} ELSE {})
  /\ UNCHANGED <<event, net, pc, sanitizeRan, sanitizedLinks, batches, batchIndex, results,
                 delays, summaries, returned>>

MainSettles(i, r) == Settle(i, r.visited, checkSingleLinkResume(probes[i], r, OptionsOf(event)))

HopSettles(i, r) == Settle(i, r.visited, getRedirectChainHop(probes[i], r, OptionsOf(event)))

(* Line 202: the main request of probe i settles. *)
FetchSettled(i) ==
  /\ probes[i].pc = "fetch"
  /\ MainSettles(i, Fetch(probes[i].url, probes[i].fetchOptions))

(* Line 279: the request of the current hop of probe i settles. *)
TraceSettled(i) ==
  /\ probes[i].pc = "trace"
  /\ HopSettles(i, Fetch(probes[i].currentUrl, TraceOptions(OptionsOf(event))))

(* Lines 157-176: the results res now pushed, the loop body ends, with the *)
(* pacing delay when there is more than one batch.                         *)
Collected(res) ==
  /\ results' = res
  /\ IF PacesAfter(batches, batchIndex)
     THEN /\ pc' = "delay"
          /\ delays' = delays + 1
          /\ UNCHANGED <<batchIndex, probes, requestCount, requestedUrls, summaries, returned>>
     ELSE /\ NextIteration(batches, res)
          /\ UNCHANGED delays

(* Line 155: every promise of the batch has settled. *)
WindowSettled ==
  /\ pc = "window"
  /\ allSettled(probes, BatchPositions(batches, batchIndex))
  /\ Collected(results \o BatchResults(probes, batches, batchIndex))
  /\ UNCHANGED <<event, net, sanitizeRan, sanitizedLinks, batches>>

(* Line 175: the timer of the pacing delay fires. *)
DelayElapsed ==
  /\ pc = "delay"
  /\ NextIteration(batches, results)
  /\ UNCHANGED <<event, net, sanitizeRan, sanitizedLinks, batches, results, delays>>

Next ==
  \/ HandleRequest
  \/ \E i \in DOMAIN probes : FetchSettled(i)
  \/ \E i \in DOMAIN probes : TraceSettled(i)
  \/ WindowSettled
  \/ DelayElapsed

(***************************************************************************)
(* The requests and networks explored.                                     *)
(*                                                                         *)
(* Bounds: MaxShort is the length up to which every sequence of the raw    *)
(* links of Pool is a request, as is, under every behaviour of the server  *)
(* of v.io, every such sequence of links to v.io and b.io; MaxWindows is the number of windows up to   *)
(* which the patterned batches are generated (one batch that fills its     *)
(* last window and one that overflows it by one link); MaxOver is how far  *)
(* above maxLinksPerRequest the oversized batches go.                      *)
(***************************************************************************)
MaxShort == 2
MaxWindows == 2
MaxOver == 2

String(chars) == [type |-> "string", chars |-> chars]

UrlA == HTTPS \o <<"a", ".", "i", "o", "/">>
UrlB == HTTP \o <<"b", ".", "i", "o", "/">>
UrlV == HTTPS \o <<"v", ".", "i", "o", "/">>
UrlC == HTTP \o <<"c", ".", "i", "o", "/">>
UrlPrivate == HTTP \o <<"1", "0", ".", "0", ".", "0", ".", "5", "/">>

RawA == String(<<"a", ".", "i", "o">>)
RawB == String(HTTP \o <<"b", ".", "i", "o">>)
RawV == String(<<" ">> \o HTTPS \o <<"V", ".", "i", "o", "/", " ">>)
RawC == String(HTTP \o <<"c", ".", "i", "o">>)
RawPrivate == String(HTTP \o <<"1", "0", ".", "0", ".", "0", ".", "5", "/">>)
RawLocal == String(<<"L", "o", "c", "a", "l", "h", "o", "s", "t">>)
RawBroken == String(<<"a", " ", "b">>)
RawNumber == [type |-> "number"]

Pool == {RawA, RawB, RawPrivate, RawLocal, RawBroken, RawNumber}

(* What the server of v.io may do. *)
Latencies == {100, SlowThresholdMs, SlowThresholdMs + 1, timeoutMs + 1000}

Behaviours ==
  {Response(s, <<>>, ms) : s \in {200, 301, 304, 404, 418, 500}, ms \in Latencies}
    \cup {Response(301, UrlA, ms) : ms \in Latencies}
    \cup {Response(301, UrlPrivate, 100), Response(302, <<"x">>, 100)}
    \cup {Failure(c, n, "system", 30) :
            c \in {"ENOTFOUND", "ECONNREFUSED", "ETIMEDOUT", "CERT_HAS_EXPIRED", "ECONNRESET"},
            n \in {"FetchError", "Error"}}
    \cup {Failure("undefined", n, "", 30) : n \in {"AbortError", "TypeError"}}

BaseNet ==
  [u \in {UrlA, UrlB, UrlC, UrlV} |->
     IF u = UrlA THEN Response(200, <<>>, 100)
     ELSE IF u = UrlB THEN Response(301, UrlA, 40)
     ELSE IF u = UrlC THEN Response(301, UrlV, 40)
     ELSE Response(200, <<>>, 100)]

Networks == {[BaseNet EXCEPT ![UrlV] = b] : b \in Behaviours}

OptionsObjects ==
  {EmptyObject,
   [EmptyObject EXCEPT !.followRedirects = "false"],
   [EmptyObject EXCEPT !.checkSSL = "false"],
   [timeout |-> 3000, followRedirects |-> "true", checkSSL |-> "true", userAgent |-> "chrome"]}

OptionsValues == OptionsObjects \cup {NullValue, [undefined |-> TRUE]}

Post(links, options) ==
  [httpMethod |-> "POST",
   body |-> [parses |-> TRUE, linksIsArray |-> TRUE, links |-> links, options |-> options]]

(* Requests the handler answers without looking at any link. *)
ShellEvents ==
  {[httpMethod |-> m, body |-> Post(<<RawA>>, EmptyObject).body] : m \in {"OPTIONS", "GET"}}
    \cup {[httpMethod |-> "POST",
           body |-> [parses |-> FALSE, linksIsArray |-> FALSE, links |-> <<>>,
                     options |-> EmptyObject]],
          [httpMethod |-> "POST",
           body |-> [parses |-> TRUE, linksIsArray |-> FALSE, links |-> <<>>,
                     options |-> EmptyObject]],
          Post(<<>>, EmptyObject)}

ShortLinks == UNION {[1..n -> Pool] : n \in 1..MaxShort}

Mentions(links, raw) == \E i \in 1..Len(links) : links[i] = raw

VariedLinks == {l \in UNION {[1..n -> {RawV, RawB}] : n \in 1..MaxShort} : Mentions(l, RawV)}

(* The link to c.io, which redirects to v.io, alone and before a link to   *)
(* v.io itself.                                                            *)
RedirectLinks == {<<RawC>>, <<RawC, RawV>>}

(* Patterned batches: all valid, valid links mixed with rejected ones, and *)
(* none valid.                                                             *)
Patterned(pattern, n) ==
  [i \in 1..n |->
     CASE pattern = "valid" -> RawA
       [] pattern = "mixed" -> IF i % 3 = 1 THEN RawA ELSE IF i % 3 = 2 THEN RawB ELSE RawPrivate
       [] OTHER -> IF i % 2 = 1 THEN RawLocal ELSE RawNumber]

BatchLengths ==
  UNION {{w * maxConcurrency, w * maxConcurrency + 1} : w \in 1..MaxWindows}
    \cup {maxLinksPerRequest + d : d \in 0..MaxOver}

Scenarios ==
  {[event |-> e, net |-> BaseNet] : e \in ShellEvents}
    \cup {[event |-> Post(l, o), net |-> n] :
            l \in VariedLinks \cup RedirectLinks, o \in OptionsValues, n \in Networks}
    \cup {[event |-> Post(l, o), net |-> BaseNet] : l \in ShortLinks, o \in OptionsValues}
    \cup {[event |-> Post(Patterned(p, n), o), net |-> BaseNet] :
            p \in {"valid", "mixed", "none"}, n \in BatchLengths,
            o \in {EmptyObject, NullValue}}

Init ==
  /\ \E s \in Scenarios : event = s.event /\ net = s.net
  /\ pc = "start"
  /\ sanitizeRan = FALSE
  /\ sanitizedLinks = <<>>
  /\ batches = <<>>
  /\ batchIndex = 0
  /\ probes = <<>>
  /\ results = <<>>
  /\ delays = 0
  /\ requestCount = 0
  /\ requestedUrls = {}
  /\ summaries = <<>>
  /\ returned = <<>>

Spec == Init /\ [][Next]_vars

(***************************************************************************)
(* getRedirectChain on its own: it is called for the URL of a probe whose  *)
(* main request was answered from another URL, on a network that need not  *)
(* answer as it answered the main request.  Each of the three servers      *)
(* answers 200, redirects to one of the three (to itself and in cycles     *)
(* included), redirects to a relative location (its own root, or a path    *)
(* of a URL that does not exist), redirects with no                        *)
(* location, is slower than the timeout of the tracer, or refuses the      *)
(* connection.                                                             *)
(***************************************************************************)
TracerUrls == {UrlA, UrlB, UrlC}

TracerBehaviours ==
  {Response(200, <<>>, 100), Response(301, <<>>, 100), Response(302, <<"x">>, 100),
   Response(303, <<"/">>, 100),
   Response(307, UrlA, TraceTimeoutMs + 1), Failure("ECONNREFUSED", "FetchError", "system", 30)}
    \cup {Response(301, u, 100) : u \in TracerUrls}

TracerNetworks == [TracerUrls -> TracerBehaviours]

(* What the main request of the probe was answered. *)
MainResponses ==
  {[kind |-> "response", status |-> st, url |-> <<"f">>, location |-> <<>>, ms |-> ms,
    visited |-> {}] : st \in {200, 404}, ms \in {100, SlowThresholdMs + 1}}

(* No call yet. *)
TracerInit ==
  /\ event = Post(<<>>, EmptyObject)
  /\ net = BaseNet
  /\ pc = "caller"
  /\ sanitizeRan = FALSE
  /\ sanitizedLinks = <<>>
  /\ batches = <<>>
  /\ batchIndex = 0
  /\ probes = <<>>
  /\ results = <<>>
  /\ delays = 0
  /\ requestCount = 0
  /\ requestedUrls = {}
  /\ summaries = <<>>
  /\ returned = <<>>

(* Lines 222-223 and 272-279: the probe of url, whose main request was     *)
(* answered r, calls getRedirectChain, which issues its first request.     *)
TracerCalled(url, r, o) ==
  /\ event' = Post(<<String(url)>>, o)
  /\ sanitizeRan' = TRUE
  /\ sanitizedLinks' = <<url>>
  /\ batches' = <<<<url>>>>
  /\ batchIndex' = 1
  /\ probes' = <<getRedirectChainStart([url |-> url, mainRequests |-> 1], r)>>
  /\ requestCount' = 1
  /\ requestedUrls' = {url}
  /\ pc' = "window"
  /\ UNCHANGED <<results, delays, summaries, returned>>

TracerCall ==
  /\ pc = "caller"
  /\ net' \in TracerNetworks
  /\ \E url \in TracerUrls, r \in MainResponses, o \in {EmptyObject, [undefined |-> TRUE]} :
       TracerCalled(url, r, o)

TracerNext ==
  \/ TracerCall
  \/ \E i \in DOMAIN probes : TraceSettled(i)

TracerSpec == TracerInit /\ [][TracerNext]_vars

(***************************************************************************)
(* Properties.                                                             *)
(***************************************************************************)
(* The request is a POST whose body parses and whose links are an array. *)
WellFormed == event.httpMethod = "POST" /\ event.body.parses /\ event.body.linksIsArray

(* The handler has answered 200 with the results of a batch. *)
BatchAnswered ==
  pc = "done" /\ Len(returned) = 1 /\ returned[1].statusCode = 200
    /\ "results" \in DOMAIN returned[1]

Rejected(statusCode, error) ==
  Len(returned) = 1 /\ returned[1].statusCode = statusCode /\ returned[1].error = error

WindowOf(i) == (i + maxConcurrency - 1) \div maxConcurrency

InFlight == {i \in DOMAIN probes : probes[i].pc \in {"fetch", "trace"}}

Settled(i) == probes[i].pc \in {"fulfilled", "rejected"}

(* C1: the scheduler returns exactly one result per validated URL and the  *)
(* i-th result carries the i-th validated URL: the results pushed so far   *)
(* are a prefix of that list, and the list returned is the whole of it.    *)
C1_OneResultPerUrlInOrder ==
  /\ Len(results) <= Len(sanitizedLinks)
  /\ \A i \in 1..Len(results) : results[i].url = sanitizedLinks[i]
  /\ BatchAnswered =>
       /\ Len(returned[1].results) = Len(sanitizedLinks)
       /\ \A i \in 1..Len(sanitizedLinks) : returned[1].results[i].url = sanitizedLinks[i]

(* A batch of more than one window, of different URLs, one with a traced   *)
(* redirect chain, has been answered.                                      *)
C1_Witness ==
  /\ BatchAnswered
  /\ Len(returned[1].results) > maxConcurrency
  /\ returned[1].results[1].url # returned[1].results[2].url
  /\ "redirectChain" \in DOMAIN returned[1].results[2]
  /\ ~IsNull(returned[1].results[2].redirectChain)

(* C2: the per-status counters of every summary built by generateSummary   *)
(* sum to its total.                                                       *)
C2_CountersSumToTotal ==
  \A k \in 1..Len(summaries) :
    /\ summaries[k].nan \cap {"healthy", "broken", "warning", "redirect", "error"} = {}
    /\ summaries[k].healthy + summaries[k].broken + summaries[k].warning
         + summaries[k].redirect = summaries[k].total

(* C3: a request of more than 50 links is answered 429 with no link        *)
(* sanitized, no probe started and no request issued.                      *)
C3_OversizedRejectedFirst ==
  (WellFormed /\ Len(event.body.links) > 50) =>
    /\ ~sanitizeRan
    /\ probes = <<>>
    /\ requestCount = 0
    /\ requestedUrls = {}
    /\ pc = "done" => Len(returned) = 1 /\ returned[1].statusCode = 429

(* An oversized batch holding valid links has been answered 429. *)
C3_Witness ==
  /\ pc = "done"
  /\ WellFormed
  /\ Len(event.body.links) > 50
  /\ \E i \in 1..Len(event.body.links) : validateUrl(sanitizeUrl(event.body.links[i]))
  /\ returned[1].statusCode = 429

(* C4: when no link survives sanitizeUrl and validateUrl the batch is      *)
(* answered 400 'No valid URLs provided', no probe is started, no request  *)
(* is issued, and no summary is ever built of an empty result sequence.    *)
C4_NoValidUrlsRejected ==
  /\ (WellFormed /\ Len(event.body.links) \in 1..50
        /\ \A i \in 1..Len(event.body.links) :
             LET link == sanitizeUrl(event.body.links[i])
             IN link = NullUrl \/ ~validateUrl(link)) =>
       /\ probes = <<>>
       /\ requestCount = 0
       /\ requestedUrls = {}
       /\ summaries = <<>>
       /\ pc = "done" => Rejected(400, "No valid URLs provided")
  /\ \A k \in 1..Len(summaries) : summaries[k].total > 0

(* A batch of several links, none valid, has been rejected. *)
C4_Witness ==
  /\ pc = "done"
  /\ WellFormed
  /\ Len(event.body.links) > 1
  /\ sanitizeRan
  /\ returned[1].statusCode = 400
  /\ returned[1].error = "No valid URLs provided"

(* C5: checkSingleLink never returns a rejected promise. *)
C5_ProbeNeverRejects == \A i \in DOMAIN probes : probes[i].pc # "rejected"

(* C6: a response is classified by the first match of: status code >= 400  *)
(* broken; response time > 5000 ms warning 'Slow Response'; status code in *)
(* [300,400) redirect; otherwise healthy 'OK'.                             *)
C6_ClassificationPrecedence ==
  \A i \in DOMAIN probes :
    (probes[i].pc = "fulfilled" /\ probes[i].outcome.kind = "response") =>
      LET v == probes[i].value
          code == probes[i].outcome.status
          time == probes[i].outcome.ms
      IN /\ v.statusCode = code
         /\ v.responseTime = time
         /\ code >= 400 => v.status = "broken"
         /\ (code < 400 /\ time > 5000) => (v.status = "warning" /\ v.message = "Slow Response")
         /\ (code \in 300..399 /\ time <= 5000) => v.status = "redirect"
         /\ (code < 300 /\ time <= 5000) => (v.status = "healthy" /\ v.message = "OK")

(* A slow 3xx response has been classified a warning. *)
C6_Witness ==
  \E i \in DOMAIN probes :
    /\ probes[i].pc = "fulfilled"
    /\ probes[i].outcome.kind = "response"
    /\ probes[i].outcome.status \in 300..399
    /\ probes[i].outcome.ms > 5000
    /\ probes[i].value.status = "warning"

(* C7: the pacing delay occurs only between two consecutive windows: none  *)
(* after the last window, so (number of windows - 1) delays in a batch of  *)
(* more than one window.                                                   *)
C7_DelaysBetweenWindowsOnly ==
  /\ pc = "delay" => batchIndex < Len(batches)
  /\ (BatchAnswered /\ Len(batches) > 1) => delays = Len(batches) - 1

(* C8: at most maxConcurrency probes are in flight, and no probe of a      *)
(* later window is started before every probe of the earlier windows has   *)
(* settled.                                                                *)
C8_BoundedSequentialWindows ==
  /\ Cardinality(InFlight) <= 8
  /\ \A i, j \in DOMAIN probes :
       (WindowOf(i) < WindowOf(j) /\ probes[j].pc # "idle") => Settled(i)

(* A full second window is in flight, one of its probes tracing. *)
C8_Witness ==
  /\ batchIndex >= 2
  /\ Cardinality(InFlight) = 8
  /\ \E i \in InFlight : probes[i].pc = "trace"

(* C9: a rejected promise leaves in its slot a synthetic result with       *)
(* status 'error', statusCode 'PROCESSING_ERROR', the probe's URL and      *)
(* responseTime 0; a fulfilled promise leaves its own value; and the       *)
(* batch is answered with a result for every validated URL.                *)
C9_RejectionIsolated ==
  /\ \A i \in 1..Len(results) :
       /\ probes[i].pc = "rejected" =>
            /\ results[i].status = "error"
            /\ results[i].statusCode = "PROCESSING_ERROR"
            /\ results[i].url = sanitizedLinks[i]
            /\ results[i].responseTime = 0
       /\ probes[i].pc = "fulfilled" => results[i] = probes[i].value
  /\ BatchAnswered => Len(returned[1].results) = Len(sanitizedLinks)

(* A batch of several windows whose probes rejected has been answered. *)
C9_Witness ==
  /\ BatchAnswered
  /\ Len(batches) > 1
  /\ \A i \in 1..Len(sanitizedLinks) :
       probes[i].pc = "rejected" /\ returned[1].results[i].status = "error"

(* C10: a transport failure gives status 'broken' and the message of its   *)
(* kind: DNS failure, connection refused, timeout, expired certificate,    *)
(* or 'Connection Failed' for any other failure.                           *)
C10_TransportMessageByKind ==
  \A i \in DOMAIN probes :
    (probes[i].pc = "fulfilled" /\ probes[i].outcome.kind = "error") =>
      LET v == probes[i].value
          e == probes[i].outcome
      IN /\ v.status = "broken"
         /\ v.message =
              CASE e.code = "ENOTFOUND" -> "DNS Resolution Failed"
                [] e.code = "ECONNREFUSED" -> "Connection Refused"
                [] e.code = "ETIMEDOUT" \/ e.type = "request-timeout" -> "Request Timeout"
                [] e.code = "CERT_HAS_EXPIRED" -> "SSL Certificate Expired"
                [] OTHER -> "Connection Failed"

(* The probes that returned a result object. *)
Returned == {i \in DOMAIN probes : probes[i].pc = "fulfilled"}

IsHttps(url) == StartsWith(url, <<"h", "t", "t", "p", "s", ":">>)

(* C11, as stated: sslValid is true exactly when the URL is https, checkSSL *)
(* is not false and the probe did not fail with a certificate error (so it *)
(* is true after a DNS failure, a refusal or a timeout); null otherwise.   *)
C11_SslValidUnlessCertificateError ==
  \A i \in Returned :
    probes[i].value.sslValid =
      IF /\ IsHttps(probes[i].url)
         /\ OptionsOf(event).checkSSL # "false"
         /\ ~(probes[i].outcome.kind = "error" /\ probes[i].outcome.code \in CertCodes)
      THEN "true" ELSE "null"

(* C11, amended: sslValid is true exactly when the URL is https, checkSSL  *)
(* is not false and the probe obtained a response; it is null otherwise,   *)
(* after every transport failure included.                                 *)
C11_SslValidOnResponse ==
  \A i \in Returned :
    probes[i].value.sslValid =
      IF /\ IsHttps(probes[i].url)
         /\ OptionsOf(event).checkSSL # "false"
         /\ probes[i].outcome.kind = "response"
      THEN "true" ELSE "null"

(* An https probe with checkSSL false got a response, so sslValid is null. *)
C11_Witness ==
  \E i \in Returned :
    /\ IsHttps(probes[i].url)
    /\ OptionsOf(event).checkSSL = "false"
    /\ probes[i].outcome.kind = "response"
    /\ probes[i].value.sslValid = "null"

(* The chain in the result of probe i, <<>> when it is null. *)
ChainOf(i) ==
  IF IsNull(probes[i].value.redirectChain) THEN <<>> ELSE probes[i].value.redirectChain.items

(* C12: getRedirectChain issues at most 5 requests; what it returns is     *)
(* null or a sequence of 1 to 5 hops, never an empty sequence; and it      *)
(* terminates, whatever the redirects, cycles included: while it has not   *)
(* returned a request is outstanding, and every request that settles       *)
(* either makes it return or makes it issue one more of its 5 requests.    *)
C12_TracerBoundedAndTerminates ==
  /\ [](/\ requestCount <= 5
        /\ \A i \in DOMAIN probes : probes[i].pc \in {"trace", "fulfilled"}
        /\ \A i \in Returned :
             \/ IsNull(probes[i].value.redirectChain)
             \/ /\ DOMAIN probes[i].value.redirectChain = {"items"}
                /\ Len(probes[i].value.redirectChain.items) \in 1..5)
  /\ [][pc = "window" =>
          \A i \in DOMAIN probes :
            \/ probes'[i].pc = "fulfilled" /\ requestCount' = requestCount
            \/ probes'[i].pc = "trace" /\ requestCount' = requestCount + 1]_vars

(* The tracer returned five hops of a cycle after five requests. *)
C12_Witness ==
  \E i \in Returned :
    /\ requestCount = 5
    /\ Len(ChainOf(i)) = 5
    /\ \E j, k \in 1..5 : j < k /\ ChainOf(i)[j].url = ChainOf(i)[k].url

(* The URL answers 301 with a location to another URL, which answers a     *)
(* response that is no redirect; the 301 comes within the timeout of the   *)
(* tracer as well.                                                         *)
RedirectsOnce(url) ==
  /\ NetAt(url).kind = "response"
  /\ NetAt(url).status = 301
  /\ NetAt(url).location # <<>>
  /\ NetAt(url).ms <= TraceTimeoutMs
  /\ ResolveUrl(NetAt(url).location, url) # url
  /\ NetAt(ResolveUrl(NetAt(url).location, url)).kind = "response"
  /\ NetAt(ResolveUrl(NetAt(url).location, url)).status \notin 300..399

Blocklisted(href) ==
  \E k \in 1..Len(BLOCKED_HOSTS) : Includes(ToLowerCase(ParseUrl(href).hostname), BLOCKED_HOSTS[k])

(* One hostname for each entry of the blocklist, and one that only         *)
(* contains an entry.                                                      *)
BlockedSamples ==
  {BLOCKED_HOSTS[1], BLOCKED_HOSTS[2], BLOCKED_HOSTS[3],
   BLOCKED_HOSTS[4] \o <<"1", ".", "2", ".", "3">>,
   BLOCKED_HOSTS[5] \o <<"0", ".", "1">>,
   BLOCKED_HOSTS[6] \o <<"1", "6", ".", "0", ".", "1">>,
   <<"a">> \o BLOCKED_HOSTS[4] \o <<"i", "o">>}

(* C14: validateUrl rejects every normalized URL whose lower-cased         *)
(* hostname contains a blocklisted substring, under http: as under https:, *)
(* and no such URL is in the list the handler passes on (the list is       *)
(* written once, by the step of the handler that validates the links).     *)
C14_BlocklistedNeverValidated ==
  [][/\ sanitizedLinks' # sanitizedLinks => pc = "start"
     /\ pc = "start" =>
          /\ \A i \in 1..Len(sanitizedLinks') : ~Blocklisted(sanitizedLinks'[i])
          /\ \A i \in 1..Len(event.body.links) :
               LET href == sanitizeUrl(event.body.links[i])
               IN (href # NullUrl /\ Blocklisted(href)) => ~validateUrl(href)
          /\ \A host \in BlockedSamples, scheme \in {HTTP, HTTPS} :
               /\ sanitizeUrl(String(scheme \o host)) = scheme \o host \o <<"/">>
               /\ ~validateUrl(scheme \o host \o <<"/">>)]_vars

(* A batch with a valid link and a blocklisted https link has been         *)
(* answered: the blocklisted link was normalized, and left out.            *)
C14_Witness ==
  /\ BatchAnswered
  /\ Len(sanitizedLinks) > 0
  /\ \E i \in 1..Len(event.body.links) :
       LET href == sanitizeUrl(event.body.links[i])
       IN href # NullUrl /\ IsHttps(href) /\ Blocklisted(href)

(* The request that probe i, tracing, has outstanding fails. *)
HopFails(i) ==
  /\ probes[i].pc = "trace"
  /\ Fetch(probes[i].currentUrl, TraceOptions(OptionsOf(event))).kind = "error"

(* C15: when the request of a hop of getRedirectChain fails, the probe     *)
(* fulfils with the status, statusCode, message and responseTime of the    *)
(* main response, never with a transport or PROCESSING_ERROR result, and   *)
(* with the hops recorded before the failure as its redirectChain (null    *)
(* when there is none).                                                    *)
C15_TracerFailureSwallowed ==
  [][\A i \in DOMAIN probes :
       HopFails(i) =>
         LET main == probes[i].response
             v == probes'[i].value
         IN /\ probes'[i].pc = "fulfilled"
            /\ "error" \notin DOMAIN v
            /\ v.statusCode = main.status
            /\ v.responseTime = main.ms
            /\ v.status = IF main.status >= 400 THEN "broken"
                          ELSE IF main.ms > 5000 THEN "warning" ELSE "healthy"
            /\ v.message = IF main.status = 404 THEN "Not Found"
                           ELSE IF main.ms > 5000 THEN "Slow Response" ELSE "OK"
            /\ v.redirectChain = IF probes[i].chain = <<>> THEN NullValue
                                 ELSE [items |-> probes[i].chain]]_vars

(* The tracer returned the hops it had recorded when the request of the    *)
(* next one failed, to a probe whose main response was healthy.            *)
C15_Witness ==
  \E i \in Returned :
    /\ Len(ChainOf(i)) \in 1..4
    /\ probes[i].value.status = "healthy"
    /\ LET last == ChainOf(i)[Len(ChainOf(i))]
       IN Fetch(ResolveUrl(last.location, last.url), TraceOptions(OptionsOf(event))).kind = "error"

(* C16: the hops of a chain are in first-hop-first order: the first hop is *)
(* from the requested URL, every hop has the 3xx status and the non-empty  *)
(* location its URL answered, and every later hop is from the location of  *)
(* the hop before it, resolved against the URL of that hop.                *)
C16_ChainFirstHopFirst ==
  \A i \in Returned :
    LET chain == ChainOf(i)
    IN /\ chain # <<>> => chain[1].url = probes[i].url
       /\ \A k \in 1..Len(chain) :
            /\ chain[k].status \in 300..399
            /\ chain[k].location # <<>>
            /\ chain[k].status = NetAt(chain[k].url).status
            /\ chain[k].location = NetAt(chain[k].url).location
       /\ \A k \in 1..(Len(chain) - 1) :
            chain[k + 1].url = ResolveUrl(chain[k].location, chain[k].url)

(* A chain of three hops from three URLs, then one from a relative         *)
(* location, has been returned.                                            *)
C16_Witness ==
  \E i \in Returned :
    /\ Len(ChainOf(i)) >= 4
    /\ Cardinality({ChainOf(i)[k].url : k \in 1..3}) = 3
    /\ ChainOf(i)[3].location = <<"/">>

(* How far the invocation of checkSingleLink for a position has got. *)
Stage(p) ==
  CASE p.pc = "idle" -> 0
    [] p.pc = "fetch" -> 1
    [] p.pc = "trace" -> 2
    [] OTHER -> 3

(* C17: checkSingleLink is invoked exactly once for each position of the   *)
(* validated list (one probe per position, on the URL of that position,    *)
(* never started again, none left out when the batch is answered) and its  *)
(* main request is issued at most once, after a failure too (so a batch    *)
(* that traces no redirect has issued one request per validated URL).      *)
C17_OneInvocationNoRetry ==
  /\ [](/\ Len(probes) \in {0, Len(sanitizedLinks)}
        /\ \A i \in DOMAIN probes :
             /\ probes[i].pc # "idle" => probes[i].url = sanitizedLinks[i]
             /\ "mainRequests" \in DOMAIN probes[i] => probes[i].mainRequests = 1
        /\ BatchAnswered =>
             /\ Len(probes) = Len(sanitizedLinks)
             /\ \A i \in DOMAIN probes : Settled(i)
             /\ (~IsNull(OptionsOf(event)) /\ OptionsOf(event).followRedirects = "false")
                  => requestCount = Len(sanitizedLinks))
  /\ [][\A i \in DOMAIN probes :
          /\ Stage(probes'[i]) >= Stage(probes[i])
          /\ Stage(probes[i]) = 3 => probes'[i] = probes[i]]_vars

(* A batch of two links has been answered, the main request of one of its  *)
(* probes having failed.                                                   *)
C17_Witness ==
  /\ BatchAnswered
  /\ Len(sanitizedLinks) = 2
  /\ requestCount = 2
  /\ OptionsOf(event).followRedirects = "false"
  /\ \E i \in Returned : probes[i].outcome.kind = "error"

(* C18: every URL a request of the batch was issued to (by checkSingleLink, *)
(* by the redirects its request follows, by getRedirectChain) is a URL     *)
(* validateUrl accepts.                                                    *)
C18_OnlyValidatedUrlsRequested == \A url \in requestedUrls : validateUrl(url)

(* What is left for a probe to do: its main request, then at most          *)
(* maxRedirects requests of the tracer.                                    *)
ProbeRank(p) ==
  CASE p.pc = "idle" -> 8
    [] p.pc = "fetch" -> 7
    [] p.pc = "trace" -> p.maxRedirects + 1
    [] OTHER -> 0

RECURSIVE ProbesRank(_)
ProbesRank(k) == IF k = 0 THEN 0 ELSE ProbeRank(probes[k]) + ProbesRank(k - 1)

(* What is left for the invocation to do; no invocation has more than 50   *)
(* probes in 7 windows.                                                    *)
Rank ==
  CASE pc = "start" -> 1000
    [] pc = "done" -> 0
    [] pc = "window" -> ProbesRank(Len(probes)) + 3 * (Len(batches) - batchIndex) + 2
    [] OTHER -> ProbesRank(Len(probes)) + 3 * (Len(batches) - batchIndex) + 1

(* The invocation waits for something that will come: the handler has yet  *)
(* to run, a request of the current window is outstanding, every promise   *)
(* of the window has settled (allSettled resolves), or the timer of the    *)
(* pacing delay is running.                                                *)
Pending ==
  \/ pc \in {"start", "delay"}
  \/ pc = "window" /\ \E i \in BatchPositions(batches, batchIndex) : i \in InFlight
  \/ pc = "window" /\ \A i \in BatchPositions(batches, batchIndex) : Settled(i)

(* C19: provided every request settles, the invocation returns exactly one *)
(* response: it has returned one response exactly when it is done and none *)
(* before, until then it is waiting for the handler, a request, a settled  *)
(* window or the timer, and every step brings it nearer the end (Rank      *)
(* decreases, so no run goes on for ever).  A 200 response comes only      *)
(* after every probe of every window has settled, with processed and       *)
(* summary.total equal to the number of validated URLs.                    *)
C19_ReturnsOnceAfterAllSettled ==
  /\ [](/\ Len(returned) = IF pc = "done" THEN 1 ELSE 0
        /\ pc # "done" => Pending
        /\ BatchAnswered =>
             /\ Len(probes) = Len(sanitizedLinks)
             /\ \A i \in DOMAIN probes : Settled(i)
             /\ returned[1].processed = Len(sanitizedLinks)
             /\ returned[1].summary.total = Len(sanitizedLinks)
             /\ Len(summaries) = 1)
  /\ [][Rank' < Rank]_vars

(* A batch of several windows has been answered 200, after its delays. *)
C19_Witness ==
  /\ BatchAnswered
  /\ Len(batches) > 1
  /\ delays > 0
  /\ returned[1].processed > maxConcurrency
  /\ returned[1].summary.total = returned[1].processed

====
